---- MODULE Spec2Model ----
(***************************************************************************)
(* Model of folly/experimental/logging/LogStreamProcessor.h: construction  *)
(* of the log message by the three LogStreamProcessor constructors,        *)
(* createLogString(), formatLogString(), fallbackFormat() and the two      *)
(* detail::fallbackFormatOneArg() overloads.                               *)
(*                                                                         *)
(* Text is a sequence of non-empty tokens; the empty string is << >>.  A   *)
(* string literal of the source is one token, except the two literals     *)
(* that end one part of the message and begin the next, which are split   *)
(* at that boundary: "\", arguments: " and "<no_string_conversion>)".      *)
(* folly::to<std::string>(), folly::sformat(), folly::demangle() and the   *)
(* arguments' toAppend() are library or caller code: their outcome is an   *)
(* input of the log statement, drawn in Init.                              *)
(***************************************************************************)
EXTENDS Naturals, Sequences, FiniteSets

\* Longest argument list of a log statement.
MaxArgs == 2

ERROR_TOKEN == "<error_converting_to_string>"
NOCONV_TOKEN == "<no_string_conversion>"

VARIABLES
  ctor,      \* constructor overload selected: "APPEND0", "APPEND", "FORMAT"
  fmt,       \* the format template (FORMAT only)
  args,      \* the argument list
  rtti,      \* FOLLY_HAS_RTTI is defined in this build
  primary,   \* outcome of folly::to<std::string>() / folly::sformat()
  pc,        \* position of the construction
  message,   \* message_
  result,    \* the local std::string result of formatLogString's handler
  rest,      \* the parameter pack still to be processed by fallbackFormat
  composerCalled, \* fallbackFormat() has been called
  calls      \* history: one record per fallbackFormatOneArg() invocation

vars == <<ctor, fmt, args, rtti, primary, pc, message, result, rest,
          composerCalled, calls>>

inputs == <<ctor, fmt, args, rtti, primary>>

(***************************************************************************)
(* Inputs                                                                  *)
(***************************************************************************)

\* An argument: its demangled type name, whether a toAppend() overload
\* exists for its type, what folly::demangle(typeid(*arg)) does ("ok", or
\* raises a std::exception), what toAppend(*arg, str) does ("ok", raises a
\* std::exception, raises something else) and the text toAppend() appends
\* (before raising, when it raises).
ConvertibleArgs ==
  [type : {"Foo"}, cap : {TRUE}, lookup : {"ok", "std"},
   conv : {"ok", "std", "other"}, text : {<< >>, <<"v">>}]

OpaqueArgs ==
  [type : {"Bar"}, cap : {FALSE}, lookup : {"ok", "std"},
   conv : {"none"}, text : {<< >>}]

ArgKinds == ConvertibleArgs \cup OpaqueArgs

SeqUpTo(S, n) == UNION {[1..k -> S] : k \in 0..n}

Templates == {<<"{}">>, <<"{} widgets">>}

\* What the primary attempt does: returns a string, raises a std::exception
\* whose what() is the given text, or raises something not derived from
\* std::exception.
PrimaryOutcomes ==
  [kind : {"ok"}, text : {<< >>, <<"out">>}]
    \cup [kind : {"std"}, text : {<< >>, <<"what">>}]
    \cup [kind : {"other"}, text : {<< >>}]

NoPrimary == [kind |-> "none", text |-> << >>]

Init ==
  /\ ctor \in {"APPEND0", "APPEND", "FORMAT"}
  /\ rtti \in BOOLEAN
  /\ \/ /\ ctor = "APPEND0"
        /\ args = << >>
        /\ fmt = << >>
        /\ primary = NoPrimary
     \/ /\ ctor = "APPEND"
        \* folly::to<std::string>() only accepts types with a toAppend(), and
        \* returns the empty string for an empty list.
        /\ args \in SeqUpTo(ConvertibleArgs, MaxArgs)
        /\ fmt = << >>
        /\ primary \in PrimaryOutcomes
        /\ args = << >> => primary = [kind |-> "ok", text |-> << >>]
     \/ /\ ctor = "FORMAT"
        /\ args \in SeqUpTo(ArgKinds, MaxArgs)
        /\ fmt \in Templates
        /\ primary \in PrimaryOutcomes
  /\ pc = "Unattempted"
  /\ message = << >>
  /\ result = << >>
  /\ rest = << >>
  /\ composerCalled = FALSE
  /\ calls = << >>


(***************************************************************************)
(* detail::fallbackFormatOneArg                                            *)
(***************************************************************************)

\* catch (const std::exception&): the only handler the file has.
Catches(kind) == kind = "std"

\* The overload chosen when toAppend(Arg, std::string*) is well formed.
\* The type-name lookup and the conversion share one try block.  The
\* conversion appends to str itself, so what it appended before raising
\* stays there.  attempted: toAppend(*arg, str) was called.
fallbackFormatOneArgInt(str, arg) ==
  LET s0 == Append(str, "(")
      s1 == IF rtti THEN s0 \o <<arg.type, ": ">> ELSE s0
      s2 == s1 \o arg.text
  IN  IF rtti /\ arg.lookup # "ok"
        THEN IF Catches(arg.lookup)
               THEN [str |-> s0 \o <<ERROR_TOKEN, ")">>,
                     raised |-> FALSE, attempted |-> FALSE]
               ELSE [str |-> s0, raised |-> TRUE, attempted |-> FALSE]
        ELSE IF arg.conv = "ok"
               THEN [str |-> Append(s2, ")"),
                     raised |-> FALSE, attempted |-> TRUE]
               ELSE IF Catches(arg.conv)
                      THEN [str |-> s2 \o <<ERROR_TOKEN, ")">>,
                            raised |-> FALSE, attempted |-> TRUE]
                      ELSE [str |-> s2, raised |-> TRUE, attempted |-> TRUE]

fallbackFormatOneArgLongErrorToken(str, arg) ==
  LET s0 == Append(str, "(")
      s1 == IF rtti /\ arg.lookup = "ok"
              THEN s0 \o <<arg.type, ": ">> ELSE s0
  IN  [str |-> s1 \o <<ERROR_TOKEN, ")">>,
       raised |-> FALSE, attempted |-> FALSE]

\* The overload chosen otherwise.  The type-name lookup has a try block of
\* its own whose handler ignores the error.
fallbackFormatOneArgLong(str, arg) ==
  LET s0 == Append(str, "(")
      s1 == IF rtti /\ arg.lookup = "ok"
              THEN s0 \o <<arg.type, ": ">> ELSE s0
  IN  IF rtti /\ arg.lookup # "ok" /\ ~Catches(arg.lookup)
        THEN [str |-> s0, raised |-> TRUE, attempted |-> FALSE]
        ELSE [str |-> s1 \o <<NOCONV_TOKEN, ")">>,
              raised |-> FALSE, attempted |-> FALSE]

\* fallbackFormatOneArg(str, &arg, 0): the int overload is preferred and
\* drops out of overload resolution when toAppend() is not available.
fallbackFormatOneArg(str, arg) ==
  IF arg.cap THEN fallbackFormatOneArgInt(str, arg)
             ELSE fallbackFormatOneArgLong(str, arg)

(***************************************************************************)
(* LogStreamProcessor                                                      *)
(***************************************************************************)

AfterPrimaryAlwaysFallback(outcome) ==
  IF outcome.kind = "other" THEN "Terminated" ELSE "PrimaryFailed"

\* The try block of createLogString()/formatLogString(): a returned string
\* is returned, a std::exception enters the handler, anything else meets the
\* noexcept boundary and std::terminate() is called.
AfterPrimary(outcome) ==
  IF outcome.kind = "ok" THEN "PrimarySucceeded"
  ELSE IF Catches(outcome.kind) THEN "PrimaryFailed"
  ELSE "Terminated"

createLogStringErrorNoPrefix(what) == what

createLogStringErrorFormatPrefix(what) ==
  <<"error formatting log message: ">> \o what

\* folly::to<std::string>("error constructing log message: ", ex.what())
createLogStringError(what) ==
  <<"error constructing log message: ">> \o what

\* The five appends that precede the call of fallbackFormat().
formatLogStringPrefix(what, f) ==
  <<"error formatting log message: ">> \o what
    \o <<"; format string: \"">> \o f \o <<"\"", ", arguments: ">>

fallbackFormatSeparatorAlways(remainder) == <<", ">>

\* fallbackFormat(str, arg1, remainder...) appends ", " and recurses;
\* fallbackFormat(str, arg), chosen for a single argument, appends nothing.
fallbackFormatSeparator(remainder) ==
  IF Len(remainder) > 0 THEN <<", ">> ELSE << >>

\* No fallbackFormat() overload accepts an empty pack, so formatLogString<>()
\* with no arguments cannot be instantiated.
Instantiable == ~(ctor = "FORMAT" /\ Len(args) = 0)

(***************************************************************************)
(* Actions                                                                 *)
(***************************************************************************)

\* The build rejects the log statement.
InstantiateFails ==
  /\ pc = "Unattempted"
  /\ ~Instantiable
  /\ pc' = "IllFormed"
  /\ UNCHANGED <<inputs, message, result, rest, composerCalled, calls>>

\* LogStreamProcessor(category, level, filename, lineNumber, AppendType):
\* message_ is default-initialised.
ConstructNoArgs ==
  /\ pc = "Unattempted"
  /\ ctor = "APPEND0"
  /\ message' = << >>
  /\ pc' = "Done"
  /\ UNCHANGED <<inputs, result, rest, composerCalled, calls>>

\* The try block of createLogString() or formatLogString().
PrimaryAttempt ==
  /\ pc = "Unattempted"
  /\ ctor \in {"APPEND", "FORMAT"}
  /\ Instantiable
  /\ pc' = AfterPrimary(primary)
  /\ UNCHANGED <<inputs, message, result, rest, composerCalled, calls>>

\* return folly::to<std::string>(...) / return folly::sformat(...)
ReturnPrimary ==
  /\ pc = "PrimarySucceeded"
  /\ message' = primary.text
  /\ pc' = "Done"
  /\ UNCHANGED <<inputs, result, rest, composerCalled, calls>>

\* The handler of createLogString().
CreateLogStringCatch ==
  /\ pc = "PrimaryFailed"
  /\ ctor = "APPEND"
  /\ message' = createLogStringError(primary.text)
  /\ pc' = "Done"
  /\ UNCHANGED <<inputs, result, rest, composerCalled, calls>>

\* The handler of formatLogString() up to the call of fallbackFormat().
FormatLogStringCatch ==
  /\ pc = "PrimaryFailed"
  /\ ctor = "FORMAT"
  /\ result' = formatLogStringPrefix(primary.text, fmt)
  /\ rest' = args
  /\ composerCalled' = TRUE
  /\ pc' = "Fallback"
  /\ UNCHANGED <<inputs, message, calls>>

\* One level of fallbackFormat(): the first argument of the pack goes
\* through fallbackFormatOneArg(); an exception it lets through crosses the
\* noexcept boundary of formatLogString(); after the last argument the
\* handler returns result.
FallbackFormat ==
  /\ pc = "Fallback"
  /\ Len(rest) > 0
  /\ LET arg == Head(rest)
         remainder == Tail(rest)
         r == fallbackFormatOneArg(result, arg)
     IN  /\ calls' = Append(calls, [arg |-> arg, before |-> result,
                                    after |-> r.str, raised |-> r.raised,
                                    attempted |-> r.attempted])
         /\ IF r.raised
              THEN /\ result' = r.str
                   /\ rest' = rest
                   /\ message' = message
                   /\ pc' = "Terminated"
              ELSE /\ result' = r.str \o fallbackFormatSeparator(remainder)
                   /\ rest' = remainder
                   /\ IF Len(remainder) > 0
                        THEN pc' = "Fallback" /\ message' = message
                        ELSE pc' = "Done" /\ message' = result'
  /\ UNCHANGED <<inputs, composerCalled>>

Next ==
  \/ InstantiateFails
  \/ ConstructNoArgs
  \/ PrimaryAttempt
  \/ ReturnPrimary
  \/ CreateLogStringCatch
  \/ FormatLogStringCatch
  \/ FallbackFormat

Spec == Init /\ [][Next]_vars


(***************************************************************************)
(* Properties                                                              *)
(***************************************************************************)

\* What one fallbackFormatOneArg() invocation appended to the buffer.
Fragment(c) == SubSeq(c.after, Len(c.before) + 1, Len(c.after))

Contains(text, token) == \E i \in DOMAIN text : text[i] = token

RECURSIVE JoinCommaSpace(_)
JoinCommaSpace(frags) ==
  IF Len(frags) = 0 THEN << >>
  ELSE IF Len(frags) = 1 THEN Head(frags)
  ELSE Head(frags) \o <<", ">> \o JoinCommaSpace(Tail(frags))

CallSet == {calls[i] : i \in DOMAIN calls}

PrimaryRaised == primary.kind \in {"std", "other"}

\* C1: in both modes, for every argument list and whatever the primary
\* attempt or a per-argument conversion raises, construction completes: it
\* never ends in std::terminate().
C1_Totality == pc # "Terminated"

\* C2: whenever the primary attempt does not raise, the constructed message
\* is exactly the primary attempt's output, and neither fallbackFormat() nor
\* fallbackFormatOneArg() is invoked.
C2_TransparencyOnSuccess ==
  primary.kind = "ok" =>
    /\ ~composerCalled
    /\ calls = << >>
    /\ pc = "Done" => message = primary.text

C2_Witness ==
  /\ pc = "Done"
  /\ ctor = "FORMAT"
  /\ primary.kind = "ok"
  /\ Len(args) >= 1
  /\ message = <<"out">>

\* C3: when the format attempt raised with one or more arguments, the
\* constructed message is "error formatting log message: ", the error's
\* text, "; format string: \"", the template, "\"", ", arguments: " and one
\* stringifier fragment per argument, in argument order, joined by ", ".
C3_TemplateFallbackComposition ==
  (pc = "Done" /\ ctor = "FORMAT" /\ PrimaryRaised /\ Len(args) >= 1) =>
    /\ Len(calls) = Len(args)
    /\ \A i \in DOMAIN calls :
         /\ calls[i].arg = args[i]
         /\ Fragment(calls[i]) = fallbackFormatOneArg(<< >>, args[i]).str
    /\ message =
         <<"error formatting log message: ">> \o primary.text
           \o <<"; format string: \"">> \o fmt \o <<"\"">>
           \o <<", arguments: ">>
           \o JoinCommaSpace([i \in DOMAIN calls |-> Fragment(calls[i])])

C3_Witness ==
  /\ pc = "Done"
  /\ ctor = "FORMAT"
  /\ primary.kind = "std"
  /\ Len(args) = 2
  /\ args[1] # args[2]
  /\ Len(calls) = 2

\* C4 as stated: the message held at Done is non-empty, for every argument
\* list and every outcome of the primary attempt.
C4_DoneNonEmpty == pc = "Done" => message # << >>

\* C4 as amended: the message held at Done is empty exactly when no primary
\* attempt raised and the primary output (nothing, for the constructor
\* without arguments) is empty; after a failed primary attempt it is never
\* empty.
C4_DoneEmptyOnlyOnEmptySuccess ==
  pc = "Done" =>
    (message = << >> <=> (~PrimaryRaised /\ primary.text = << >>))

C4_Witness ==
  /\ pc = "Done"
  /\ ctor = "APPEND"
  /\ primary = [kind |-> "std", text |-> << >>]
  /\ message # << >>

\* C5: when template-mode formatting raises and the argument list is empty,
\* the statement still yields a message, and it ends with ", arguments: ".
C5_EmptyArgumentListFallback ==
  (ctor = "FORMAT" /\ args = << >> /\ primary.kind = "std"
     /\ pc # "Unattempted") =>
    /\ pc \in {"PrimaryFailed", "Fallback", "Done"}
    /\ pc = "Done" =>
         /\ Len(message) > 0
         /\ message[Len(message)] = ", arguments: "

\* C6: when the whole-list conversion raised, the constructed message is
\* exactly "error constructing log message: " followed by the error's text,
\* and fallbackFormat() and fallbackFormatOneArg() are not invoked.
C6_ConcatenationFailure ==
  (ctor = "APPEND" /\ PrimaryRaised) =>
    /\ ~composerCalled
    /\ calls = << >>
    /\ pc = "Done" =>
         message = <<"error constructing log message: ">> \o primary.text

C6_Witness ==
  /\ pc = "Done"
  /\ ctor = "APPEND"
  /\ primary = [kind |-> "std", text |-> <<"what">>]
  /\ Len(args) >= 1

\* C7: every fallbackFormatOneArg() invocation returns normally, whatever
\* the conversion does, and has appended a non-empty fragment.
C7_StringifierContainment ==
  \A c \in CallSet : ~c.raised /\ Len(Fragment(c)) > 0

\* C8: the fragment of an argument whose conversion raises contains the
\* error_converting_to_string token; the fragment of an argument without a
\* conversion contains the no_string_conversion token and no conversion is
\* attempted for it; no fragment contains both tokens.  (Fragments are those
\* of the invocations that returned.)
C8_PlaceholderDisjointness ==
  \A c \in CallSet : ~c.raised =>
    /\ (c.arg.cap /\ c.arg.conv \in {"std", "other"}) =>
         Contains(Fragment(c), ERROR_TOKEN)
    /\ ~c.arg.cap =>
         (Contains(Fragment(c), NOCONV_TOKEN) /\ ~c.attempted)
    /\ ~(Contains(Fragment(c), ERROR_TOKEN)
           /\ Contains(Fragment(c), NOCONV_TOKEN))

C8_Witness ==
  /\ Len(calls) = 2
  /\ calls[1].arg.cap /\ calls[1].arg.conv = "std" /\ calls[1].attempted
  /\ ~calls[1].raised
  /\ ~calls[2].arg.cap /\ ~calls[2].raised

\* C9: when an argument's conversion was attempted and raised, and the
\* stringifier returned, the fragment is exactly "(", the type name and ": "
\* when type identification is available, the error placeholder and ")":
\* nothing the conversion appended before raising remains.
C9_ExactFailureFragment ==
  \A c \in CallSet :
    (c.arg.cap /\ c.attempted /\ c.arg.conv # "ok" /\ ~c.raised) =>
      Fragment(c) =
        <<"(">> \o (IF rtti THEN <<c.arg.type, ": ">> ELSE << >>)
          \o <<ERROR_TOKEN, ")">>

\* C10: the error_converting_to_string token is in a fragment only if that
\* argument's conversion was attempted and raised; when only the type-name
\* lookup fails the conversion is still attempted.
C10_ErrorTokenMeaning ==
  \A c \in CallSet :
    /\ Contains(Fragment(c), ERROR_TOKEN) =>
         (c.attempted /\ c.arg.conv \in {"std", "other"})
    /\ (c.arg.cap /\ rtti /\ c.arg.lookup # "ok") => c.attempted

====
